---- MODULE Spec2Model ----
(***************************************************************************)
(* Model of the presence registry and message router of umessaging:        *)
(* class uMessage (lib/uMessage.js) driven by the uWebSockets.js handlers  *)
(* open / message / close.  JavaScript Map and Set keep insertion order,   *)
(* so both registries are modelled as duplicate-free sequences.            *)
(***************************************************************************)
EXTENDS Integers, Sequences, FiniteSets, TLC

(* ------------------------------ bounds -------------------------------- *)

\* number of connection handles the transport hands out
MaxConn == 3

\* number of transport callbacks (open / message / close) in one run
MaxEvents == 6

\* pages open over a run of the server with clients, and callbacks in such a run
MaxPages == 2

MaxClientEvents == 5

Conns == 1..MaxConn

Names == {"Alice", "Bob"}

Mobiles == {"111", "222"}

\* "111" is both a possible identity and a possible group name.
GroupNames == {"general", "111"}

Contents == {"hi", "yo"}

(* ----------------------------- variables ------------------------------ *)

VARIABLES
    status,      \* transport lifecycle of each connection handle
    users,       \* this.users : Map socket -> {name, mobile}, in insertion order
    groups,      \* this.groups: Map groupId -> Set<socket>, in insertion order
    sent,        \* the ws.send calls made by the handler that ran last, in order
    last,        \* the transport callback that ran last and its arguments
    prevUsers,   \* this.users when that callback was entered
    prevGroups,  \* this.groups when that callback was entered
    handled,     \* number of callbacks that have run
    former,      \* history: the users entry each closed socket held when it closed
    firstReg,    \* history: what each socket sent in its first register frame
    lastReg,     \* history: what each socket sent in its latest register frame
    everJoined,  \* history: the group names of all join_group frames handled
    inline,      \* server.js run on the same events: its users, groups, sends
    wire,        \* payloads sent by the server that no client has handled yet
    client,      \* the `state` object of the page behind each connection
    typed,       \* history: the chat and text of every sendMessage of each page
    shared       \* history: two registered connections once had the same mobile

serverVars == <<status, users, groups, sent, last, prevUsers, prevGroups, handled,
                former, firstReg, lastReg, everJoined, inline>>

clientVars == <<wire, client, typed, shared>>

vars == <<serverVars, clientVars>>

(* ------------------------ Map / Set primitives ------------------------ *)

Range(s) == {s[i] : i \in 1..Len(s)}

\* Map.prototype.keys() of the users map, in iteration order.
UserKeys(U) == [i \in 1..Len(U) |-> U[i].socket]

\* Map.prototype.has / get on the users map.
UsersHas(U, ws) == \E i \in 1..Len(U) : U[i].socket = ws

UsersGet(U, ws) == U[CHOOSE i \in 1..Len(U) : U[i].socket = ws].user

UsersSet_KeepFirst(U, ws, u) ==
    IF UsersHas(U, ws) THEN U ELSE Append(U, [socket |-> ws, user |-> u])

UsersSet_Append(U, ws, u) == Append(U, [socket |-> ws, user |-> u])

UsersSet_MoveToEnd(U, ws, u) ==
    Append(SelectSeq(U, LAMBDA e : e.socket # ws), [socket |-> ws, user |-> u])

\* Map.prototype.set: an existing key keeps its position, a new key is appended.
UsersSet(U, ws, u) ==
    IF UsersHas(U, ws)
    THEN [i \in 1..Len(U) |-> IF U[i].socket = ws
                               THEN [socket |-> ws, user |-> u]
                               ELSE U[i]]
    ELSE Append(U, [socket |-> ws, user |-> u])

UsersDelete_Keep(U, ws) == U

\* Map.prototype.delete: the remaining entries keep their relative order.
UsersDelete(U, ws) == SelectSeq(U, LAMBDA e : e.socket # ws)

GroupKeys_NonEmpty(G) ==
    LET live == SelectSeq(G, LAMBDA e : e.members # <<>>)
    IN  [i \in 1..Len(live) |-> live[i].name]

\* Array.from(this.groups.keys())
GroupKeys(G) == [i \in 1..Len(G) |-> G[i].name]

GroupsHas(G, g) == \E i \in 1..Len(G) : G[i].name = g

GroupsGet(G, g) == G[CHOOSE i \in 1..Len(G) : G[i].name = g].members

SetAdd_Append(S, ws) == Append(S, ws)

\* Set.prototype.add: adding a present element changes nothing.
SetAdd(S, ws) == IF ws \in Range(S) THEN S ELSE Append(S, ws)

\* Set.prototype.delete
SetDelete(S, ws) == SelectSeq(S, LAMBDA x : x # ws)

(* ------------------------------ sending ------------------------------- *)

\* socket.send(payload, false, true): one entry of the send log.
Send(socket, payload) == [to |-> socket, payload |-> payload]



\* this.users.forEach((u, socket) => { if (socket !== ws) socket.send(payload) })
BroadcastExcept(U, ws, payload) ==
    LET targets == SelectSeq(UserKeys(U), LAMBDA socket : socket # ws)
    IN  [i \in 1..Len(targets) |-> Send(targets[i], payload)]

\* this.users.forEach((userData, socket) => { socket.send(payload) })
BroadcastAll(U, payload) == [i \in 1..Len(U) |-> Send(U[i].socket, payload)]

\* group.forEach(socket => { socket.send(payload) })
GroupSend(members, payload) ==
    [i \in 1..Len(members) |-> Send(members[i], payload)]

(* --------------------------- inbound frames --------------------------- *)

\* The value JavaScript yields for a property that is not there.
Undefined == "<undefined>"

Frame(form, type, name, mobile, groupName, to, content) ==
    [form |-> form, type |-> type, name |-> name, mobile |-> mobile,
     groupName |-> groupName, to |-> to, content |-> content]

NoFrame == Frame("none", Undefined, Undefined, Undefined, Undefined, Undefined, Undefined)

\* {"type":"register","name":n,"mobile":m}
RegisterFrames ==
    {Frame("object", "register", n, m, Undefined, Undefined, Undefined) :
        n \in Names, m \in Mobiles}

\* {"type":"join_group","groupName":g}
JoinFrames ==
    {Frame("object", "join_group", Undefined, Undefined, g, Undefined, Undefined) :
        g \in GroupNames}

\* {"type":"message","to":t,"content":c}
MessageFrames ==
    {Frame("object", "message", Undefined, Undefined, Undefined, t, c) :
        t \in Mobiles \cup GroupNames, c \in Contents}

\* objects whose type is not one of the three handled, or is missing
OtherFrames ==
    {Frame("object", t, Undefined, Undefined, Undefined, Undefined, Undefined) :
        t \in {"ping", Undefined}}

\* text that is no JSON at all, the JSON text null, a JSON number/string/boolean
MalformedFrames ==
    {Frame(f, Undefined, Undefined, Undefined, Undefined, Undefined, Undefined) :
        f \in {"unparseable", "null", "scalar"}}

Frames == RegisterFrames \cup JoinFrames \cup MessageFrames
              \cup OtherFrames \cup MalformedFrames

\* JSON.parse(text): throws a SyntaxError on text that is not JSON.
JSONParse(message) ==
    IF message.form = "unparseable"
    THEN [threw |-> TRUE, json |-> NoFrame]
    ELSE [threw |-> FALSE, json |-> message]

\* json.type: a TypeError on null, undefined on a number/string/boolean.
TypeOf(json) ==
    CASE json.form = "null"   -> [threw |-> TRUE, type |-> Undefined]
      [] json.form = "scalar" -> [threw |-> FALSE, type |-> Undefined]
      [] OTHER                -> [threw |-> FALSE, type |-> json.type]

(* ------------------------------ handlers ------------------------------ *)

\* What a handler leaves behind: both registries and its send log.
Result(U, G, s) == [users |-> U, groups |-> G, sent |-> s]

UserListFor_All(U, ws) == [i \in 1..Len(U) |-> U[i].user]

\* const userList = []; for (const [socket, u] of this.users.entries()) ...
UserListFor(U, ws) ==
    LET others == SelectSeq(U, LAMBDA e : e.socket # ws)
    IN  [i \in 1..Len(others) |-> others[i].user]

RegisterReplies_ListsFirst(ws, U, G) ==
    LET groupList == GroupKeys(G)
        userList  == UserListFor(U, ws)
    IN  << Send(ws, [type |-> "group_list", groups |-> groupList]),
           Send(ws, [type |-> "user_list", users |-> userList]),
           Send(ws, [type |-> "registered", success |-> TRUE]) >>

\* the three replies to the registering socket, in program order
RegisterReplies(ws, U, G) ==
    LET groupList == GroupKeys(G)
        userList  == UserListFor(U, ws)
    IN  << Send(ws, [type |-> "registered", success |-> TRUE]),
           Send(ws, [type |-> "group_list", groups |-> groupList]),
           Send(ws, [type |-> "user_list", users |-> userList]) >>

_handleRegister_LeaveOld(ws, json, U, G) ==
    LET name   == json.name
        mobile == json.mobile
        U1     == UsersSet(U, ws, [name |-> name, mobile |-> mobile])
        userJoinedPayload ==
            [type |-> "user_joined", user |-> [name |-> name, mobile |-> mobile]]
        left   == IF UsersHas(U, ws) /\ UsersGet(U, ws).mobile # mobile
                  THEN BroadcastExcept(U1, ws, [type |-> "user_left",
                                                mobile |-> UsersGet(U, ws).mobile])
                  ELSE <<>>
    IN  Result(U1, G, RegisterReplies(ws, U1, G) \o left
                          \o BroadcastExcept(U1, ws, userJoinedPayload))

_handleRegister(ws, json, U, G) ==
    LET name   == json.name
        mobile == json.mobile
        U1     == UsersSet(U, ws, [name |-> name, mobile |-> mobile])
        userJoinedPayload ==
            [type |-> "user_joined", user |-> [name |-> name, mobile |-> mobile]]
    IN  Result(U1, G, RegisterReplies(ws, U1, G)
                          \o BroadcastExcept(U1, ws, userJoinedPayload))

\* if (!this.groups.has(groupName)) this.groups.set(groupName, new Set())
GroupsEnsure(G, groupName) ==
    IF GroupsHas(G, groupName)
    THEN G
    ELSE Append(G, [name |-> groupName, members |-> <<>>])

GroupsJoin_All(G, groupName, ws) ==
    [i \in 1..Len(G) |-> [G[i] EXCEPT !.members = SetAdd(@, ws)]]

\* this.groups.get(groupName).add(ws)
GroupsJoin(G, groupName, ws) ==
    [i \in 1..Len(G) |-> IF G[i].name = groupName
                          THEN [G[i] EXCEPT !.members = SetAdd(@, ws)]
                          ELSE G[i]]

IsNew_Always(G, groupName) == TRUE

\* let isNew = false; if (!this.groups.has(groupName)) { ...; isNew = true }
IsNew(G, groupName) == ~GroupsHas(G, groupName)

_handleJoinGroup_AnnounceFirst(ws, json, U, G) ==
    LET groupName == json.groupName
        isNew     == IsNew(G, groupName)
        G1        == GroupsJoin(GroupsEnsure(G, groupName), groupName, ws)
        joined    == <<Send(ws, [type |-> "joined_group", groupName |-> groupName])>>
        newGroupPayload == [type |-> "group_created", groupName |-> groupName]
    IN  Result(U, G1,
               (IF isNew THEN BroadcastAll(U, newGroupPayload) ELSE <<>>) \o joined)

_handleJoinGroup(ws, json, U, G) ==
    LET groupName == json.groupName
        isNew     == IsNew(G, groupName)
        G1        == GroupsJoin(GroupsEnsure(G, groupName), groupName, ws)
        joined    == <<Send(ws, [type |-> "joined_group", groupName |-> groupName])>>
        newGroupPayload == [type |-> "group_created", groupName |-> groupName]
    IN  Result(U, G1,
               joined \o (IF isNew THEN BroadcastAll(U, newGroupPayload) ELSE <<>>))

\* sender ? sender.name : 'Anonymous'
SenderName(U, ws) == IF UsersHas(U, ws) THEN UsersGet(U, ws).name ELSE "Anonymous"

SenderMobile_Anon(U, ws) ==
    IF UsersHas(U, ws) THEN UsersGet(U, ws).mobile ELSE "Anonymous"

\* sender ? sender.mobile : '?'
SenderMobile(U, ws) == IF UsersHas(U, ws) THEN UsersGet(U, ws).mobile ELSE "?"

MessagePayload(U, ws, to, content) ==
    [type |-> "message", from |-> SenderName(U, ws),
     fromMobile |-> SenderMobile(U, ws), to |-> to, content |-> content]

FindByMobile_Truthy(U, to) == IF U = <<>> THEN 0 ELSE U[1].socket

\* let targetSocket = null; for (...) if (userData.mobile === to) { ...; break }
\* 0 stands for null.
FindByMobile(U, to) ==
    LET hits == {i \in 1..Len(U) : U[i].user.mobile = to}
    IN  IF hits = {} THEN 0
        ELSE U[CHOOSE i \in hits : \A j \in hits : i <= j].socket

_handleChatMessage_IdentityFirst(ws, json, U, G) ==
    LET to      == json.to
        content == json.content
        targetSocket == FindByMobile(U, to)
    IN  IF targetSocket # 0
        THEN Result(U, G, <<Send(targetSocket, MessagePayload(U, ws, to, content))>>)
        ELSE IF GroupsHas(G, to)
             THEN Result(U, G, GroupSend(GroupsGet(G, to),
                                         MessagePayload(U, ws, to, content)))
             ELSE Result(U, G, <<>>)

_handleChatMessage_SkipSender(ws, json, U, G) ==
    LET to      == json.to
        content == json.content
    IN  IF GroupsHas(G, to)
        THEN Result(U, G, GroupSend(SetDelete(GroupsGet(G, to), ws),
                                    MessagePayload(U, ws, to, content)))
        ELSE LET targetSocket == FindByMobile(U, to)
             IN  IF targetSocket # 0
                 THEN Result(U, G, <<Send(targetSocket, MessagePayload(U, ws, to, content))>>)
                 ELSE Result(U, G, <<>>)

_handleChatMessage_RegisteredOnly(ws, json, U, G) ==
    LET to      == json.to
        content == json.content
    IN  IF GroupsHas(G, to)
        THEN Result(U, G, GroupSend(SelectSeq(GroupsGet(G, to),
                                              LAMBDA member : UsersHas(U, member)),
                                    MessagePayload(U, ws, to, content)))
        ELSE LET targetSocket == FindByMobile(U, to)
             IN  IF targetSocket # 0
                 THEN Result(U, G, <<Send(targetSocket, MessagePayload(U, ws, to, content))>>)
                 ELSE Result(U, G, <<>>)

_handleChatMessage(ws, json, U, G) ==
    LET to      == json.to
        content == json.content
    IN  IF GroupsHas(G, to)
        THEN Result(U, G, GroupSend(GroupsGet(G, to), MessagePayload(U, ws, to, content)))
        ELSE LET targetSocket == FindByMobile(U, to)
             IN  IF targetSocket # 0
                 THEN Result(U, G, <<Send(targetSocket, MessagePayload(U, ws, to, content))>>)
                 ELSE Result(U, G, <<>>)

Catch_Reply(ws, U, G) == Result(U, G, <<Send(ws, [type |-> "error"])>>)

\* catch (e) { console.error(...) }
Catch(ws, U, G) == Result(U, G, <<>>)

NoBranch_Reply(ws, U, G) == Result(U, G, <<Send(ws, [type |-> "error"])>>)

\* the if / else-if chain on json.type has no final else
NoBranch(ws, U, G) == Result(U, G, <<>>)

handleMessage(ws, message, U, G) ==
    LET parsed == JSONParse(message)
        t      == TypeOf(parsed.json)
    IN  IF parsed.threw \/ t.threw THEN Catch(ws, U, G)
        ELSE CASE t.type = "register"   -> _handleRegister(ws, parsed.json, U, G)
               [] t.type = "join_group" -> _handleJoinGroup(ws, parsed.json, U, G)
               [] t.type = "message"    -> _handleChatMessage(ws, parsed.json, U, G)
               [] OTHER                 -> NoBranch(ws, U, G)

LeaveAll_Keep(G, ws) == G

LeaveAll_Prune(G, ws) ==
    SelectSeq([i \in 1..Len(G) |-> [G[i] EXCEPT !.members = SetDelete(@, ws)]],
              LAMBDA e : e.members # <<>>)

\* this.groups.forEach(group => group.delete(ws))
LeaveAll(G, ws) == [i \in 1..Len(G) |-> [G[i] EXCEPT !.members = SetDelete(@, ws)]]

UserLeftPayload_Name(user) == [type |-> "user_left", mobile |-> user.name]

\* JSON.stringify({ type: 'user_left', mobile: user.mobile })
UserLeftPayload(user) == [type |-> "user_left", mobile |-> user.mobile]

handleClose_AlwaysBroadcast(ws, U, G) ==
    LET mobile == IF UsersHas(U, ws) THEN UsersGet(U, ws).mobile ELSE Undefined
    IN  Result(UsersDelete(U, ws), LeaveAll(G, ws),
               BroadcastExcept(U, ws, [type |-> "user_left", mobile |-> mobile]))

handleClose(ws, U, G) ==
    LET userLeft ==
            IF UsersHas(U, ws)
            THEN BroadcastExcept(U, ws, UserLeftPayload(UsersGet(U, ws)))
            ELSE <<>>
    IN  Result(UsersDelete(U, ws), LeaveAll(G, ws), userLeft)

handleOpen_AutoRegister(ws, U, G) ==
    Result(UsersSet(U, ws, [name |-> "Anonymous", mobile |-> "?"]), G, <<>>)

\* handleOpen(ws) { /* No-op or init logic */ }
handleOpen(ws, U, G) == Result(U, G, <<>>)

(* ------------------ server.js: the inline handlers -------------------- *)

\* open: (res, req, context) => { console.log(...) }
inline_open(res, U, G) == Result(U, G, <<>>)

inline_message_SendToAll(res, message, U, G) ==
    LET parsed == JSONParse(message)
        t      == TypeOf(parsed.json)
        json   == parsed.json
    IN  IF parsed.threw \/ t.threw THEN Result(U, G, <<>>)
        ELSE IF t.type = "register" THEN
            LET name      == json.name
                mobile    == json.mobile
                U1        == UsersSet(U, res, [name |-> name, mobile |-> mobile])
                groupList == GroupKeys(G)
                others    == SelectSeq(U1, LAMBDA e : e.socket # res)
                userList  == [i \in 1..Len(others) |-> others[i].user]
                userJoinedPayload ==
                    [type |-> "user_joined", user |-> [name |-> name, mobile |-> mobile]]
                targets   == UserKeys(U1)
            IN  Result(U1, G,
                       << Send(res, [type |-> "registered", success |-> TRUE]),
                          Send(res, [type |-> "group_list", groups |-> groupList]),
                          Send(res, [type |-> "user_list", users |-> userList]) >>
                       \o [i \in 1..Len(targets) |-> Send(targets[i], userJoinedPayload)])
        ELSE IF t.type = "join_group" THEN
            LET groupName == json.groupName
                isNew     == ~GroupsHas(G, groupName)
                G1        == IF isNew
                             THEN Append(G, [name |-> groupName, members |-> <<>>])
                             ELSE G
                G2        == [i \in 1..Len(G1) |->
                                 IF G1[i].name = groupName
                                 THEN [G1[i] EXCEPT !.members = SetAdd(@, res)]
                                 ELSE G1[i]]
                newGroupPayload == [type |-> "group_created", groupName |-> groupName]
            IN  Result(U, G2,
                       <<Send(res, [type |-> "joined_group", groupName |-> groupName])>>
                       \o (IF isNew
                           THEN [i \in 1..Len(U) |-> Send(U[i].socket, newGroupPayload)]
                           ELSE <<>>))
        ELSE IF t.type = "message" THEN
            LET to      == json.to
                content == json.content
                sender  == UsersHas(U, res)
                payload == [type |-> "message",
                            from |-> IF sender THEN UsersGet(U, res).name
                                     ELSE "Anonymous",
                            fromMobile |-> IF sender THEN UsersGet(U, res).mobile
                                           ELSE "?",
                            to |-> to, content |-> content]
            IN  IF GroupsHas(G, to)
                THEN LET group == GroupsGet(G, to)
                     IN  Result(U, G, [i \in 1..Len(group) |-> Send(group[i], payload)])
                ELSE LET targetSocket == FindByMobile(U, to)
                     IN  IF targetSocket # 0
                         THEN Result(U, G, <<Send(targetSocket, payload)>>)
                         ELSE Result(U, G, <<>>)
        ELSE Result(U, G, <<>>)

\* message: (res, message, isBinary) => { try { ... } catch (e) { ... } }
\* over the module-level Maps users and groups
inline_message(res, message, U, G) ==
    LET parsed == JSONParse(message)
        t      == TypeOf(parsed.json)
        json   == parsed.json
    IN  IF parsed.threw \/ t.threw THEN Result(U, G, <<>>)
        ELSE IF t.type = "register" THEN
            LET name      == json.name
                mobile    == json.mobile
                U1        == UsersSet(U, res, [name |-> name, mobile |-> mobile])
                groupList == GroupKeys(G)
                others    == SelectSeq(U1, LAMBDA e : e.socket # res)
                userList  == [i \in 1..Len(others) |-> others[i].user]
                userJoinedPayload ==
                    [type |-> "user_joined", user |-> [name |-> name, mobile |-> mobile]]
                targets   == SelectSeq(UserKeys(U1), LAMBDA ws : ws # res)
            IN  Result(U1, G,
                       << Send(res, [type |-> "registered", success |-> TRUE]),
                          Send(res, [type |-> "group_list", groups |-> groupList]),
                          Send(res, [type |-> "user_list", users |-> userList]) >>
                       \o [i \in 1..Len(targets) |-> Send(targets[i], userJoinedPayload)])
        ELSE IF t.type = "join_group" THEN
            LET groupName == json.groupName
                isNew     == ~GroupsHas(G, groupName)
                G1        == IF isNew
                             THEN Append(G, [name |-> groupName, members |-> <<>>])
                             ELSE G
                G2        == [i \in 1..Len(G1) |->
                                 IF G1[i].name = groupName
                                 THEN [G1[i] EXCEPT !.members = SetAdd(@, res)]
                                 ELSE G1[i]]
                newGroupPayload == [type |-> "group_created", groupName |-> groupName]
            IN  Result(U, G2,
                       <<Send(res, [type |-> "joined_group", groupName |-> groupName])>>
                       \o (IF isNew
                           THEN [i \in 1..Len(U) |-> Send(U[i].socket, newGroupPayload)]
                           ELSE <<>>))
        ELSE IF t.type = "message" THEN
            LET to      == json.to
                content == json.content
                sender  == UsersHas(U, res)
                payload == [type |-> "message",
                            from |-> IF sender THEN UsersGet(U, res).name
                                     ELSE "Anonymous",
                            fromMobile |-> IF sender THEN UsersGet(U, res).mobile
                                           ELSE "?",
                            to |-> to, content |-> content]
            IN  IF GroupsHas(G, to)
                THEN LET group == GroupsGet(G, to)
                     IN  Result(U, G, [i \in 1..Len(group) |-> Send(group[i], payload)])
                ELSE LET targetSocket == FindByMobile(U, to)
                     IN  IF targetSocket # 0
                         THEN Result(U, G, <<Send(targetSocket, payload)>>)
                         ELSE Result(U, G, <<>>)
        ELSE Result(U, G, <<>>)

\* close: (res, code, message) => { ... }
inline_close(res, U, G) ==
    LET userLeft ==
            IF UsersHas(U, res)
            THEN LET user    == UsersGet(U, res)
                     targets == SelectSeq(UserKeys(U), LAMBDA ws : ws # res)
                 IN  [i \in 1..Len(targets) |->
                         Send(targets[i], [type |-> "user_left", mobile |-> user.mobile])]
            ELSE <<>>
    IN  Result(UsersDelete(U, res),
               [i \in 1..Len(G) |-> [G[i] EXCEPT !.members = SetDelete(@, res)]],
               userLeft)

(* --------------------------- state machine ---------------------------- *)

\* the entry of a socket that has none
NoUser == [name |-> Undefined, mobile |-> Undefined]

\* const state = { user: null, ws: null, activeChat: null, chats: new Map(), ... }
state ==
    [user |-> NoUser, activeChat |-> Undefined, chats |-> <<>>,
     knownGroups |-> {}, unknownGroups |-> {}, onlineUsers |-> {},
     chatScreen |-> FALSE]

Event(kind, ws, message) == [kind |-> kind, ws |-> ws, message |-> message]

Init ==
    /\ status = [c \in Conns |-> "fresh"]
    /\ users = <<>>
    /\ groups = <<>>
    /\ sent = <<>>
    /\ last = Event("none", 0, NoFrame)
    /\ prevUsers = <<>>
    /\ prevGroups = <<>>
    /\ handled = 0
    /\ former = [c \in Conns |-> NoUser]
    /\ firstReg = [c \in Conns |-> NoUser]
    /\ lastReg = [c \in Conns |-> NoUser]
    /\ everJoined = {}
    /\ inline = Result(<<>>, <<>>, <<>>)
    /\ wire = <<>>
    /\ client = [c \in Conns |-> state]
    /\ typed = [c \in Conns |-> <<>>]
    /\ shared = FALSE

Apply(ev, r) ==
    /\ handled < MaxEvents
    /\ handled' = handled + 1
    /\ users' = r.users
    /\ groups' = r.groups
    /\ sent' = r.sent
    /\ last' = ev
    /\ prevUsers' = users
    /\ prevGroups' = groups

\* open: a new socket object; handles are opaque, so they are taken in order.
Open(ws) ==
    /\ status[ws] = "fresh"
    /\ \A c \in Conns : c < ws => status[c] # "fresh"
    /\ status' = [status EXCEPT ![ws] = "open"]
    /\ Apply(Event("open", ws, NoFrame), handleOpen(ws, users, groups))
    /\ inline' = inline_open(ws, inline.users, inline.groups)
    /\ UNCHANGED <<former, firstReg, lastReg, everJoined>>

\* message: one inbound frame of an open socket, handled to completion.
Message(ws, message) ==
    /\ status[ws] = "open"
    /\ UNCHANGED status
    /\ Apply(Event("message", ws, message), handleMessage(ws, message, users, groups))
    /\ inline' = inline_message(ws, message, inline.users, inline.groups)
    /\ firstReg' = IF message.type = "register" /\ firstReg[ws] = NoUser
                   THEN [firstReg EXCEPT ![ws] = [name |-> message.name,
                                                  mobile |-> message.mobile]]
                   ELSE firstReg
    /\ lastReg' = IF message.type = "register"
                  THEN [lastReg EXCEPT ![ws] = [name |-> message.name,
                                                mobile |-> message.mobile]]
                  ELSE lastReg
    /\ everJoined' = IF message.type = "join_group"
                     THEN everJoined \cup {message.groupName}
                     ELSE everJoined
    /\ UNCHANGED former

\* close: the socket is gone; no callback runs for it afterwards.
Close(ws) ==
    /\ status[ws] = "open"
    /\ status' = [status EXCEPT ![ws] = "closed"]
    /\ Apply(Event("close", ws, NoFrame), handleClose(ws, users, groups))
    /\ inline' = inline_close(ws, inline.users, inline.groups)
    /\ former' = [former EXCEPT ![ws] = IF UsersHas(users, ws)
                                        THEN UsersGet(users, ws) ELSE NoUser]
    /\ UNCHANGED <<firstReg, lastReg, everJoined>>

\* the server alone: every frame a peer can send, no page behind a connection
Next ==
    \/ \E ws \in Conns : Open(ws) /\ UNCHANGED clientVars
    \/ \E ws \in Conns, message \in Frames :
          Message(ws, message) /\ UNCHANGED clientVars
    \/ \E ws \in Conns : Close(ws) /\ UNCHANGED clientVars

Spec == Init /\ [][Next]_vars

TypeOK ==
    /\ status \in [Conns -> {"fresh", "open", "closed"}]
    /\ \A i \in 1..Len(users) : users[i].socket \in Conns
    /\ \A i \in 1..Len(groups) : groups[i].name \in GroupNames

(* ------------------- the bundled client (browser) --------------------- *)

\* the connections that get a page
Pages == 1..MaxPages

\* mobiles a connection may register under, one more than the logins use
ClientMobiles == Mobiles \cup {"333"}

\* the name typed into every login form
LoginNames == {"Alice"}

\* register frames of any peer of the protocol
ClientRegisterFrames ==
    {Frame("object", "register", n, m, Undefined, Undefined, Undefined) :
        n \in LoginNames, m \in ClientMobiles}

\* what is typed into the search box
ChatIds == Mobiles

\* what is typed into the message box
Texts == {"hi"}

\* state.chats.has(id)
ChatsHas(chats, id) == id \in DOMAIN chats

\* state.chats.set(id, chat)
ChatsSet(chats, id, chat) ==
    [x \in DOMAIN chats \cup {id} |-> IF x = id THEN chat ELSE chats[x]]

\* state.onlineUsers.set(user.mobile, user)
OnlineSet(onlineUsers, user) ==
    {u \in onlineUsers : u.mobile # user.mobile} \cup {user}

\* state.onlineUsers.delete(mobile)
OnlineDelete(onlineUsers, mobile) == {u \in onlineUsers : u.mobile # mobile}

\* users.forEach(u => { state.onlineUsers.set(u.mobile, u) })
OnlineSetAll(onlineUsers, list) ==
    {u \in onlineUsers : \A i \in 1..Len(list) : list[i].mobile # u.mobile}
        \cup {list[i] : i \in {j \in 1..Len(list) :
                 \A k \in (j + 1)..Len(list) : list[k].mobile # list[j].mobile}}

\* function getOrCreateChat(id, type, name)
getOrCreateChat(st, id, type) ==
    IF ChatsHas(st.chats, id)
    THEN st
    ELSE [st EXCEPT !.chats = ChatsSet(@, id, [id |-> id, type |-> type,
                                                messages |-> <<>>])]

\* function selectChat(id)
selectChat(st, id) == [st EXCEPT !.activeChat = id]

\* chat.messages.push(messageData)
pushMessage(st, id, messageData) ==
    [st EXCEPT !.chats[id].messages = Append(@, messageData)]

\* else if (msg.type === 'joined_group')
onJoinedGroup(st, groupName) ==
    selectChat(getOrCreateChat([st EXCEPT !.knownGroups = @ \cup {groupName},
                                          !.unknownGroups = @ \ {groupName}],
                               groupName, "group"),
               groupName)

\* else if (msg.type === 'group_list')
onGroupList(st, groupList) ==
    [st EXCEPT !.unknownGroups =
        @ \cup {g \in Range(groupList) : g \notin st.knownGroups}]

onGroupCreated_Always(st, groupName) ==
    [st EXCEPT !.unknownGroups = @ \cup {groupName}]

\* else if (msg.type === 'group_created')
onGroupCreated(st, groupName) ==
    IF groupName \notin st.knownGroups
    THEN [st EXCEPT !.unknownGroups = @ \cup {groupName}]
    ELSE st

\* else if (msg.type === 'message')
onChatMessage(st, msg) ==
    LET isGroup == msg.to # st.user.mobile
        chatId  == IF isGroup THEN msg.to ELSE msg.fromMobile
        messageData == [text |-> msg.content, sender |-> msg.from, isMe |-> FALSE]
    IN  pushMessage(getOrCreateChat(st, chatId, IF isGroup THEN "group" ELSE "dm"),
                    chatId, messageData)

\* function handleMessage(msg) of the page
client_handleMessage(st, msg) ==
    CASE msg.type = "registered"    -> [st EXCEPT !.chatScreen = TRUE]
      [] msg.type = "joined_group"  -> onJoinedGroup(st, msg.groupName)
      [] msg.type = "group_list"    -> onGroupList(st, msg.groups)
      [] msg.type = "group_created" -> onGroupCreated(st, msg.groupName)
      [] msg.type = "user_list"     ->
             [st EXCEPT !.onlineUsers = OnlineSetAll(@, msg.users)]
      [] msg.type = "user_joined"   ->
             [st EXCEPT !.onlineUsers = OnlineSet(@, msg.user)]
      [] msg.type = "user_left"     ->
             [st EXCEPT !.onlineUsers = OnlineDelete(@, msg.mobile)]
      [] msg.type = "message"       -> onChatMessage(st, msg)
      [] OTHER                      -> st

\* two entries of the user registry carry the same mobile
IdentityShared(U) ==
    \E i, j \in 1..Len(U) : i # j /\ U[i].user.mobile = U[j].user.mobile

\* what a server callback sent goes on the wire, in the order of the sends;
\* the next callback runs once the pages have handled it
Deliver ==
    /\ wire = <<>>
    /\ handled < MaxClientEvents
    /\ wire' = sent'
    /\ shared' = (shared \/ IdentityShared(users'))

\* handleLogin sets state.user and calls connect: new WebSocket(wsUrl)
connect(ws, name, mobile) ==
    /\ Open(ws)
    /\ Deliver
    /\ client' = [client EXCEPT ![ws].user = [name |-> name, mobile |-> mobile]]
    /\ UNCHANGED typed

\* ws.onopen: the page registers as state.user
onopen(ws) ==
    /\ firstReg[ws] = NoUser
    /\ Message(ws, Frame("object", "register", client[ws].user.name,
                         client[ws].user.mobile, Undefined, Undefined, Undefined))
    /\ Deliver
    /\ UNCHANGED <<client, typed>>

\* a register frame on a connection that has registered before; the page never
\* sends one, the protocol lets any peer send it
Reregister(ws, message) ==
    /\ firstReg[ws] # NoUser
    /\ Message(ws, message)
    /\ Deliver
    /\ UNCHANGED <<client, typed>>

\* function joinGroup(groupName)
joinGroup(ws, groupName) ==
    /\ client[ws].chatScreen
    /\ Message(ws, Frame("object", "join_group", Undefined, Undefined, groupName,
                         Undefined, Undefined))
    /\ Deliver
    /\ UNCHANGED <<client, typed>>

\* function startChat(mobileOrName)
startChat(ws, mobileOrName) ==
    /\ status[ws] = "open"
    /\ wire = <<>>
    /\ client[ws].chatScreen
    /\ client[ws].activeChat # mobileOrName
    /\ client' = [client EXCEPT ![ws] =
           IF mobileOrName \in @.knownGroups
           THEN selectChat(@, mobileOrName)
           ELSE selectChat(getOrCreateChat(@, mobileOrName, "dm"), mobileOrName)]
    /\ UNCHANGED <<serverVars, wire, typed, shared>>

\* function sendMessage(): the frame, then the optimistic update
sendMessage(ws, text) ==
    /\ client[ws].chatScreen
    /\ client[ws].activeChat # Undefined
    /\ LET chat == client[ws].chats[client[ws].activeChat]
       IN  /\ Message(ws, Frame("object", "message", Undefined, Undefined,
                                Undefined, chat.id, text))
           /\ client' = [client EXCEPT ![ws] =
                  pushMessage(@, chat.id, [text |-> text, sender |-> @.user.name,
                                           isMe |-> TRUE])]
           /\ typed' = [typed EXCEPT ![ws] =
                  Append(@, [chat |-> chat.id, text |-> text])]
    /\ Deliver

\* ws.onmessage: the page handles the oldest payload on the wire
onmessage ==
    /\ wire # <<>>
    /\ client' = [client EXCEPT ![Head(wire).to] =
                     client_handleMessage(@, Head(wire).payload)]
    /\ wire' = Tail(wire)
    /\ UNCHANGED <<serverVars, typed, shared>>

\* ws.onclose: the connection is gone, the page keeps its state
onclose(ws) ==
    /\ Close(ws)
    /\ Deliver
    /\ UNCHANGED <<client, typed>>

\* the server with a page behind every connection
NextClient ==
    \/ \E ws \in Pages, name \in LoginNames, mobile \in Mobiles : connect(ws, name, mobile)
    \/ \E ws \in Pages : onopen(ws)
    \/ \E ws \in Pages, message \in ClientRegisterFrames : Reregister(ws, message)
    \/ \E ws \in Pages, groupName \in GroupNames : joinGroup(ws, groupName)
    \/ \E ws \in Pages, mobileOrName \in ChatIds : startChat(ws, mobileOrName)
    \/ \E ws \in Pages, text \in Texts : sendMessage(ws, text)
    \/ onmessage
    \/ \E ws \in Pages : onclose(ws)

SpecClient == Init /\ [][NextClient]_vars

(* ------------------ frames with a field left out ---------------------- *)

\* const { name, mobile } = json: a property that is not there reads undefined
PartialRegisterFrames ==
    {Frame("object", "register", n, m, Undefined, Undefined, Undefined) :
        n \in LoginNames, m \in Mobiles \cup {Undefined}}

\* const { groupName } = json
PartialJoinFrames ==
    {Frame("object", "join_group", Undefined, Undefined, g, Undefined, Undefined) :
        g \in GroupNames \cup {Undefined}}

\* const { to, content } = json
PartialMessageFrames ==
    {Frame("object", "message", Undefined, Undefined, Undefined, t, c) :
        t \in Mobiles \cup GroupNames \cup {Undefined}, c \in Texts}

PartialFrames == PartialRegisterFrames \cup PartialJoinFrames \cup PartialMessageFrames

\* the server alone, fed objects of the three handled types with or without
\* their addressing field
NextPartial ==
    \/ \E ws \in Conns : Open(ws) /\ UNCHANGED clientVars
    \/ \E ws \in Conns, message \in PartialFrames :
          Message(ws, message) /\ UNCHANGED clientVars
    \/ \E ws \in Conns : Close(ws) /\ UNCHANGED clientVars

SpecPartial == Init /\ [][NextPartial]_vars

(* ------------------- vocabulary of the properties --------------------- *)

\* the connections that are keys of a user registry
Registered(U) == {U[i].socket : i \in 1..Len(U)}

\* the user entries a registry holds for connection c (at most one)
EntriesOf(U, c) == {U[i].user : i \in {j \in 1..Len(U) : U[j].socket = c}}

\* the names that are keys of a group registry
GroupNamesIn(G) == {G[i].name : i \in 1..Len(G)}

\* the connections that are members of the group named g (empty if absent)
MembersIn(G, g) ==
    UNION {Range(G[i].members) : i \in {j \in 1..Len(G) : G[j].name = g}}

\* positions of the send log addressed to connection c
SendsTo(c) == {i \in 1..Len(sent) : sent[i].to = c}

\* positions of the send log carrying a payload of type t
SendsOf(t) == {i \in 1..Len(sent) : sent[i].payload.type = t}

IsRegisterEvent == last.kind = "message" /\ last.message \in RegisterFrames

IsJoinEvent == last.kind = "message" /\ last.message \in JoinFrames

IsMessageEvent == last.kind = "message" /\ last.message \in MessageFrames

IsMalformedEvent == last.kind = "message" /\ last.message \in MalformedFrames

IsCloseEvent == last.kind = "close"

(* ------------------------------- C1 ----------------------------------- *)

\* C1: immediately after handleClose(c) the connection c is not a key of the
\* user registry, no identity lookup resolves to c, and c is a member of no
\* group; also when c had joined groups without ever registering.
C1_ClosedIsGone ==
    IsCloseEvent =>
        /\ last.ws \notin Registered(users)
        /\ \A m \in Mobiles \cup GroupNames : FindByMobile(users, m) # last.ws
        /\ \A i \in 1..Len(groups) : last.ws \notin Range(groups[i].members)

\* a connection that joined a group without registering has just been closed
C1_Witness ==
    /\ IsCloseEvent
    /\ last.ws \notin Registered(prevUsers)
    /\ \E g \in GroupNames : last.ws \in MembersIn(prevGroups, g)

(* ------------------------------- C2 ----------------------------------- *)

\* C2: a message whose `to` names an existing group sends exactly one message
\* payload to each current member of that group and nothing to anyone else;
\* the sender gets it if and only if it is a member.
C2_GroupDelivery ==
    (IsMessageEvent /\ last.message.to \in GroupNamesIn(prevGroups)) =>
        /\ \A i \in 1..Len(sent) : sent[i].payload.type = "message"
        /\ \A c \in Conns :
              Cardinality(SendsTo(c)) =
                  IF c \in MembersIn(prevGroups, last.message.to) THEN 1 ELSE 0

\* a member sent to its own group, which has a second member
C2_Witness ==
    /\ IsMessageEvent
    /\ last.message.to \in GroupNamesIn(prevGroups)
    /\ last.ws \in MembersIn(prevGroups, last.message.to)
    /\ Cardinality(MembersIn(prevGroups, last.message.to)) >= 2

(* ------------------------------- C3 ----------------------------------- *)

\* C3: a message whose `to` names no existing group is sent to at most one
\* connection, which is registered with mobile equal to `to`; when no
\* registered connection has that mobile nothing at all is sent.
C3_DirectDelivery ==
    (IsMessageEvent /\ last.message.to \notin GroupNamesIn(prevGroups)) =>
        /\ Len(sent) <= 1
        /\ \A i \in 1..Len(sent) :
              /\ sent[i].payload.type = "message"
              /\ sent[i].to \in Registered(prevUsers)
              /\ \A u \in EntriesOf(prevUsers, sent[i].to) : u.mobile = last.message.to
        /\ (\A c \in Registered(prevUsers) :
               \A u \in EntriesOf(prevUsers, c) : u.mobile # last.message.to)
           => sent = <<>>

\* a direct message was delivered while a connection with another identity
\* was registered too
C3_Witness ==
    /\ IsMessageEvent
    /\ last.message.to \notin GroupNamesIn(prevGroups)
    /\ Len(sent) = 1
    /\ \E c \in Registered(prevUsers) :
          \E u \in EntriesOf(prevUsers, c) : u.mobile # last.message.to

(* ------------------------------- C4 ----------------------------------- *)

\* C4 as stated: a join_group for a name that does not exist yet sends exactly
\* one group_created to every registered connection and to the joiner, whether
\* the joiner is registered or not; a join of an existing name sends none.
C4_AsStated ==
    IsJoinEvent =>
        IF last.message.groupName \notin GroupNamesIn(prevGroups)
        THEN \A c \in Registered(prevUsers) \cup {last.ws} :
                Cardinality(SendsTo(c) \cap SendsOf("group_created")) = 1
        ELSE SendsOf("group_created") = {}

\* C4 amended: a join_group for a name that does not exist yet sends exactly one
\* group_created, carrying that name, to every registered connection and to no
\* other; the joiner gets it if and only if it is registered.  A join of an
\* existing name sends no group_created.
C4_GroupCreated ==
    IsJoinEvent =>
        IF last.message.groupName \notin GroupNamesIn(prevGroups)
        THEN /\ \A c \in Conns :
                   Cardinality(SendsTo(c) \cap SendsOf("group_created")) =
                       IF c \in Registered(prevUsers) THEN 1 ELSE 0
             /\ \A i \in SendsOf("group_created") :
                   sent[i].payload.groupName = last.message.groupName
        ELSE SendsOf("group_created") = {}

\* a registered connection created a group while another one was registered
C4_Witness ==
    /\ IsJoinEvent
    /\ last.message.groupName \notin GroupNamesIn(prevGroups)
    /\ last.ws \in Registered(prevUsers)
    /\ Cardinality(Registered(prevUsers)) >= 2

(* ------------------------------- C5 ----------------------------------- *)

\* the user_list payloads of the send log
UserLists == {sent[i].payload.users : i \in SendsOf("user_list")}

\* C5: on a register event from B the user_list sent to B holds exactly one
\* entry per other registered connection, with that connection's name and
\* mobile, and none for B; the user_joined payload goes exactly once to every
\* other registered connection and never to B.
C5_Snapshot ==
    IsRegisterEvent =>
        /\ Cardinality(SendsOf("user_list")) = 1
        /\ SendsOf("user_list") \subseteq SendsTo(last.ws)
        /\ \A l \in UserLists :
              /\ Len(l) = Cardinality(Registered(prevUsers) \ {last.ws})
              /\ \A r \in [name : Names, mobile : Mobiles] :
                    Cardinality({i \in 1..Len(l) : l[i] = r}) =
                    Cardinality({c \in Registered(prevUsers) \ {last.ws} :
                                    r \in EntriesOf(prevUsers, c)})
        /\ \A c \in Conns :
              Cardinality(SendsTo(c) \cap SendsOf("user_joined")) =
                  IF c \in Registered(prevUsers) \ {last.ws} THEN 1 ELSE 0

\* an already registered connection registers again while another connection
\* is registered
C5_Witness ==
    /\ IsRegisterEvent
    /\ last.ws \in Registered(prevUsers)
    /\ Registered(prevUsers) \ {last.ws} # {}

(* ------------------------------- C6 ----------------------------------- *)

\* C6: every register event sends the registering connection registered, then
\* group_list, then user_list, each exactly once, and all three before any
\* user_joined of that event.
C6_ReplyOrder ==
    IsRegisterEvent =>
        /\ Len(sent) >= 3
        /\ sent[1].to = last.ws /\ sent[1].payload.type = "registered"
        /\ sent[2].to = last.ws /\ sent[2].payload.type = "group_list"
        /\ sent[3].to = last.ws /\ sent[3].payload.type = "user_list"
        /\ \A t \in {"registered", "group_list", "user_list"} :
              Cardinality(SendsOf(t)) = 1
        /\ \A i \in SendsOf("user_joined") : i > 3

\* a register event that also broadcast user_joined to another connection
C6_Witness == IsRegisterEvent /\ SendsOf("user_joined") # {}

(* ------------------------------- C7 ----------------------------------- *)

\* C7: when a registered connection c disconnects, every connection that
\* remains registered is sent exactly one user_left carrying the mobile c held,
\* c is sent nothing, the recipients are those registered when the handler was
\* entered (c's memberships still in place), and afterwards c is in neither
\* registry.
C7_UserLeft ==
    (IsCloseEvent /\ last.ws \in Registered(prevUsers)) =>
        /\ \A c \in Conns :
              Cardinality(SendsTo(c)) =
                  IF c \in Registered(prevUsers) \ {last.ws} THEN 1 ELSE 0
        /\ \A i \in 1..Len(sent) :
              /\ sent[i].payload.type = "user_left"
              /\ \A u \in EntriesOf(prevUsers, last.ws) :
                    sent[i].payload.mobile = u.mobile
        /\ Registered(users) = Registered(prevUsers) \ {last.ws}
        /\ \A g \in GroupNames : last.ws \notin MembersIn(groups, g)

\* a registered group member disconnected while another was registered
C7_Witness ==
    /\ IsCloseEvent
    /\ last.ws \in Registered(prevUsers)
    /\ Registered(prevUsers) \ {last.ws} # {}
    /\ \E g \in GroupNames : last.ws \in MembersIn(prevGroups, g)

(* ------------------------------- C8 ----------------------------------- *)

\* the member lists a group registry holds for the name g (at most one)
MemberListsOf(G, g) == {G[i].members : i \in {j \in 1..Len(G) : G[j].name = g}}

\* C8: a join_group(g) from a connection that is already a member of g leaves
\* the member set of g and its size unchanged, and in every reachable state no
\* connection occurs twice in a group's member set.
C8_JoinIdempotent ==
    /\ (IsJoinEvent /\ last.ws \in MembersIn(prevGroups, last.message.groupName)) =>
           MemberListsOf(groups, last.message.groupName) =
               MemberListsOf(prevGroups, last.message.groupName)
    /\ \A i \in 1..Len(groups) :
           \A j, k \in 1..Len(groups[i].members) :
               j # k => groups[i].members[j] # groups[i].members[k]

\* a member of a group sent join_group for that group again
C8_Witness ==
    /\ IsJoinEvent
    /\ last.ws \in MembersIn(prevGroups, last.message.groupName)

(* ------------------------------- C9 ----------------------------------- *)

\* the state a malformed frame leaves behind
C9_Drop ==
    IsMalformedEvent =>
        /\ users = prevUsers
        /\ groups = prevGroups
        /\ sent = <<>>
        /\ status[last.ws] = "open"

\* the next well-formed frame of the connection whose frame was just dropped
C9_Then ==
    (IsMalformedEvent /\ last'.kind = "message" /\ last'.ws = last.ws) =>
        /\ last'.message \in RegisterFrames =>
              /\ [name |-> last'.message.name, mobile |-> last'.message.mobile]
                     \in EntriesOf(users', last.ws)
              /\ sent'[1] = Send(last.ws, [type |-> "registered", success |-> TRUE])
        /\ last'.message \in JoinFrames =>
              /\ last.ws \in MembersIn(groups', last'.message.groupName)
              /\ sent'[1] = Send(last.ws, [type |-> "joined_group",
                                           groupName |-> last'.message.groupName])

\* C9: a payload that cannot be parsed as a JSON object (unparseable text, null,
\* a JSON scalar) is dropped: neither registry changes, nothing is sent, and the
\* same connection's next well-formed event is processed normally.
C9_MalformedDropped == [](C9_Drop) /\ [][C9_Then]_vars

\* a malformed frame arrived while both registries were non-empty
C9_Witness == IsMalformedEvent /\ prevUsers # <<>> /\ prevGroups # <<>>

(* ------------------------------- C10 ---------------------------------- *)

\* C10: a connection with no registry entry can still join and send: its join
\* adds it to the group and is confirmed, and every message payload it
\* originates carries from = "Anonymous" and fromMobile = "?".
C10_Anonymous ==
    /\ (IsJoinEvent /\ last.ws \notin Registered(prevUsers)) =>
           /\ last.ws \in MembersIn(groups, last.message.groupName)
           /\ Len(sent) >= 1
           /\ sent[1] = Send(last.ws, [type |-> "joined_group",
                                       groupName |-> last.message.groupName])
           /\ status[last.ws] = "open"
    /\ (IsMessageEvent /\ last.ws \notin Registered(prevUsers)) =>
           /\ \A i \in 1..Len(sent) :
                 /\ sent[i].payload.type = "message"
                 /\ sent[i].payload.from = "Anonymous"
                 /\ sent[i].payload.fromMobile = "?"
           /\ status[last.ws] = "open"

\* an unregistered group member sent a message that was delivered
C10_Witness ==
    /\ IsMessageEvent
    /\ last.ws \notin Registered(prevUsers)
    /\ \E g \in GroupNames : last.ws \in MembersIn(prevGroups, g)
    /\ sent # <<>>

(* ------------------------------- C11 ---------------------------------- *)

\* the registered connections whose entry carries the mobile m
Holders(U, m) == {c \in Registered(U) : \E u \in EntriesOf(U, c) : u.mobile = m}

\* the connections the send log addresses
Recipients == {sent[i].to : i \in 1..Len(sent)}

\* C11: whenever `to` names an existing group the message goes to the members
\* of that group only, also when a registered connection has a mobile equal to
\* `to`; that connection receives the message only if it is a member.
C11_GroupFirst ==
    (IsMessageEvent /\ last.message.to \in GroupNamesIn(prevGroups)) =>
        /\ Recipients = MembersIn(prevGroups, last.message.to)
        /\ \A c \in Holders(prevUsers, last.message.to) :
              c \in Recipients <=> c \in MembersIn(prevGroups, last.message.to)

\* a message to a group with a member, whose name is also the mobile of a
\* registered connection that is no member
C11_Witness ==
    /\ IsMessageEvent
    /\ last.message.to \in GroupNamesIn(prevGroups)
    /\ MembersIn(prevGroups, last.message.to) # {}
    /\ Holders(prevUsers, last.message.to)
           \ MembersIn(prevGroups, last.message.to) # {}

(* ------------------------------- C12 ---------------------------------- *)

\* c comes before d in the iteration order of the user registry U
Before(U, c, d) ==
    \E i, j \in 1..Len(U) : i < j /\ U[i].socket = c /\ U[j].socket = d

C13_NoSendToClosed ==
    /\ \A c \in Conns : status[c] = "closed" => c \notin Recipients
    /\ (IsMessageEvent /\ last.message.to \notin GroupNamesIn(prevGroups)
            /\ \E c \in Conns : status[c] = "closed"
                                  /\ former[c].mobile = last.message.to) =>
           /\ status[last.ws] = "open"
           /\ Recipients \subseteq Holders(prevUsers, last.message.to)
           /\ Holders(prevUsers, last.message.to) = {} => sent = <<>>
           /\ users = prevUsers /\ groups = prevGroups

\* a direct message to the mobile a disconnected connection used to hold
C13_Witness ==
    /\ IsMessageEvent
    /\ last.message.to \notin GroupNamesIn(prevGroups)
    /\ \E c \in Conns : status[c] = "closed" /\ former[c].mobile = last.message.to

(* ------------------------------- C14 ---------------------------------- *)

\* C14: groups are never deleted: a name that is a key of the group registry
\* stays a key in every later state, also when its last member disconnects,
\* so the set of group names only grows.
C14_GroupsPersist == [][GroupNamesIn(groups) \subseteq GroupNamesIn(groups')]_vars

\* the only member of a group has disconnected and the group is still there
C14_Witness ==
    /\ IsCloseEvent
    /\ \E g \in GroupNamesIn(groups) :
          MembersIn(prevGroups, g) = {last.ws} /\ MembersIn(groups, g) = {}

(* ------------------------------- C15 ---------------------------------- *)

\* a register frame of the connection c has been handled
HasRegistered(c) == firstReg[c] # NoUser

\* the groups that have c as a member
GroupsOf(G, c) == {g \in GroupNamesIn(G) : c \in MembersIn(G, g)}

\* C15 as stated: a connection is in neither the user registry nor any group's
\* member set until a register event from it has been handled.
C15_AsStated ==
    \A c \in Conns :
        ~HasRegistered(c) => c \notin Registered(users) /\ GroupsOf(groups, c) = {}

\* C15 amended: connecting alone makes a connection known to neither registry;
\* it stays out of the user registry until a register event from it has been
\* handled, and out of every group's member set until a join_group event from
\* it for that group has been handled, registered or not.
C15_UnknownUntil ==
    /\ last.kind = "open" =>
           last.ws \notin Registered(users) /\ GroupsOf(groups, last.ws) = {}
    /\ \A c \in Conns : ~HasRegistered(c) => c \notin Registered(users)
    /\ \A c \in Conns :
           \A g \in GroupsOf(groups, c) \ GroupsOf(prevGroups, c) :
               IsJoinEvent /\ last.ws = c /\ last.message.groupName = g

\* a connection that never registered has just joined a group
C15_Witness ==
    /\ IsJoinEvent
    /\ ~HasRegistered(last.ws)
    /\ last.message.groupName \in GroupsOf(groups, last.ws)

(* ------------------------------- C16 ---------------------------------- *)

\* C16: every join_group event sends exactly one joined_group carrying the
\* requested name, to the requesting connection only, and before any
\* group_created of the same event.
C16_JoinedFirst ==
    IsJoinEvent =>
        /\ SendsOf("joined_group") = {1}
        /\ sent[1] = Send(last.ws, [type |-> "joined_group",
                                    groupName |-> last.message.groupName])
        /\ \A i \in SendsOf("group_created") : i > 1

\* a join that created the group and announced it to two registered
\* connections
C16_Witness ==
    /\ IsJoinEvent
    /\ Cardinality(SendsOf("group_created")) >= 2

(* ------------------------------- C17 ---------------------------------- *)

\* C17: every message payload carries the `to` and `content` of the inbound
\* event unchanged and, for a registered sender, the name and mobile of the
\* sender's latest register event as from and fromMobile.
C17_PayloadFields ==
    IsMessageEvent =>
        \A i \in 1..Len(sent) :
            /\ sent[i].payload.type = "message"
            /\ sent[i].payload.to = last.message.to
            /\ sent[i].payload.content = last.message.content
            /\ last.ws \in Registered(prevUsers) =>
                  /\ sent[i].payload.from = lastReg[last.ws].name
                  /\ sent[i].payload.fromMobile = lastReg[last.ws].mobile
                  /\ EntriesOf(prevUsers, last.ws) = {lastReg[last.ws]}

\* a delivered message of a sender that had registered twice, the second time
\* under another name and another mobile
C17_Witness ==
    /\ IsMessageEvent
    /\ sent # <<>>
    /\ last.ws \in Registered(prevUsers)
    /\ firstReg[last.ws].name # lastReg[last.ws].name
    /\ firstReg[last.ws].mobile # lastReg[last.ws].mobile

(* ------------------------------- C18 ---------------------------------- *)

\* the connections the send log addresses with a payload of type t
RecipientsOf(t) == {sent[i].to : i \in SendsOf(t)}

\* no key occurs twice in either registry, no member twice in a group
KeysUnique ==
    /\ \A i, j \in 1..Len(users) : i # j => users[i].socket # users[j].socket
    /\ \A i, j \in 1..Len(groups) : i # j => groups[i].name # groups[j].name
    /\ \A i \in 1..Len(groups) :
           \A j, k \in 1..Len(groups[i].members) :
               j # k => groups[i].members[j] # groups[i].members[k]

\* C18: each callback is handled atomically: in every interleaving of the
\* connections' events the recipients of a broadcast are exactly the
\* connections registered (for a group message, the members) when that event
\* is handled, a connection that disconnected earlier receives nothing, and
\* the registries keep their keys and members unique.
C18_Atomic ==
    /\ KeysUnique
    /\ \A c \in Conns : status[c] # "open" => c \notin Recipients
    /\ IsRegisterEvent =>
           RecipientsOf("user_joined") = Registered(prevUsers) \ {last.ws}
    /\ IsCloseEvent =>
           RecipientsOf("user_left") =
               IF last.ws \in Registered(prevUsers)
               THEN Registered(prevUsers) \ {last.ws} ELSE {}
    /\ IsJoinEvent =>
           RecipientsOf("group_created") =
               IF last.message.groupName \in GroupNamesIn(prevGroups)
               THEN {} ELSE Registered(prevUsers)
    /\ (IsMessageEvent /\ last.message.to \in GroupNamesIn(prevGroups)) =>
           RecipientsOf("message") = MembersIn(prevGroups, last.message.to)

\* a group is created and announced to the registered connections after
\* another registered connection has disconnected
C18_Witness ==
    /\ IsJoinEvent
    /\ RecipientsOf("group_created") # {}
    /\ \E c \in Conns : status[c] = "closed" /\ former[c] # NoUser

(* ------------------------------- C19 ---------------------------------- *)

\* the group_list payloads of the send log
GroupLists == {sent[i].payload.groups : i \in SendsOf("group_list")}

\* C19: the group_list sent on a register event holds, each exactly once, the
\* name of every group that exists at that moment, which is every name any
\* connection has joined since start, and no other name.
C19_GroupList ==
    IsRegisterEvent =>
        /\ Cardinality(SendsOf("group_list")) = 1
        /\ \A l \in GroupLists :
              /\ \A i, j \in 1..Len(l) : i # j => l[i] # l[j]
              /\ Range(l) = GroupNamesIn(prevGroups)
              /\ Range(l) = everJoined

\* a register event while one group has members and another has lost all of
\* its members
C19_Witness ==
    /\ IsRegisterEvent
    /\ \E g \in GroupNamesIn(prevGroups) : MembersIn(prevGroups, g) = {}
    /\ \E g \in GroupNamesIn(prevGroups) : MembersIn(prevGroups, g) # {}

(* ------------------------------- C20 ---------------------------------- *)

\* C20: the disconnect of a connection that never registered sends nothing,
\* leaves the user registry unchanged and removes the connection from every
\* group it had joined, and only that connection.
C20_UnregisteredClose ==
    (IsCloseEvent /\ last.ws \notin Registered(prevUsers)) =>
        /\ sent = <<>>
        /\ users = prevUsers
        /\ GroupsOf(groups, last.ws) = {}
        /\ GroupKeys(groups) = GroupKeys(prevGroups)
        /\ \A g \in GroupNamesIn(prevGroups) :
              MembersIn(groups, g) = MembersIn(prevGroups, g) \ {last.ws}

\* an unregistered group member disconnected while somebody was registered
C20_Witness ==
    /\ IsCloseEvent
    /\ last.ws \notin Registered(prevUsers)
    /\ GroupsOf(prevGroups, last.ws) # {}
    /\ prevUsers # <<>>

(* ------------------------------- C21 ---------------------------------- *)

\* C21: a register event from an already registered connection overwrites its
\* entry: the registry keeps its number of entries, holds exactly one entry for
\* that connection, with the new name and mobile, and direct-message routing
\* resolves to that connection through the new mobile only.
C21_Overwrite ==
    (IsRegisterEvent /\ last.ws \in Registered(prevUsers)) =>
        /\ Len(users) = Len(prevUsers)
        /\ Cardinality({i \in 1..Len(users) : users[i].socket = last.ws}) = 1
        /\ EntriesOf(users, last.ws) =
               {[name |-> last.message.name, mobile |-> last.message.mobile]}
        /\ \A m \in Mobiles :
               FindByMobile(users, m) = last.ws => m = last.message.mobile

\* a connection that was registered under another mobile registers again
\* while a second connection is registered
C21_Witness ==
    /\ IsRegisterEvent
    /\ last.ws \in Registered(prevUsers)
    /\ \A u \in EntriesOf(prevUsers, last.ws) : u.mobile # last.message.mobile
    /\ Cardinality(Registered(prevUsers)) >= 2

(* ------------------------------- C22 ---------------------------------- *)

IsOtherEvent == last.kind = "message" /\ last.message \in OtherFrames

\* C22: an inbound JSON object whose type is none of register, join_group,
\* message, or is missing, changes neither registry and sends nothing.
C22_UnknownDropped ==
    IsOtherEvent => users = prevUsers /\ groups = prevGroups /\ sent = <<>>

\* an object of unknown type arrived while both registries were non-empty
C22_Witness == IsOtherEvent /\ prevUsers # <<>> /\ prevGroups # <<>>

(* ------------------------------- C23 ---------------------------------- *)

\* C23: a message event changes neither registry; a join_group event leaves
\* the user registry alone and changes only the member set of the named group;
\* a register event leaves the group registry alone and changes only the entry
\* of the registering connection.
C23_Frame ==
    /\ IsMessageEvent => users = prevUsers /\ groups = prevGroups
    /\ IsJoinEvent =>
           /\ users = prevUsers
           /\ GroupNamesIn(groups) =
                  GroupNamesIn(prevGroups) \cup {last.message.groupName}
           /\ \A g \in GroupNamesIn(prevGroups) \ {last.message.groupName} :
                  MemberListsOf(groups, g) = MemberListsOf(prevGroups, g)
    /\ IsRegisterEvent =>
           /\ groups = prevGroups
           /\ Registered(users) = Registered(prevUsers) \cup {last.ws}
           /\ \A c \in Registered(prevUsers) \ {last.ws} :
                  EntriesOf(users, c) = EntriesOf(prevUsers, c)

\* a join_group event while users are registered and another group has members
C23_Witness ==
    /\ IsJoinEvent
    /\ prevUsers # <<>>
    /\ \E g \in GroupNamesIn(prevGroups) \ {last.message.groupName} :
          MembersIn(prevGroups, g) # {} /\ last.ws \notin MembersIn(prevGroups, g)

(* ------------------------------- C26 ---------------------------------- *)

\* the connection of the last event was registered and sent a register frame
IsReRegisterEvent == IsRegisterEvent /\ last.ws \in Registered(prevUsers)

\* C26: when a registered connection registers again, every other registered
\* connection is sent exactly one user_joined with the new name and mobile and
\* nobody is sent a user_left; when the connection later disconnects, every
\* user_left carries the mobile of its latest registration, never an earlier one.
C26_NoLeftForOld ==
    /\ IsReRegisterEvent =>
           /\ SendsOf("user_left") = {}
           /\ \A c \in Registered(prevUsers) \ {last.ws} :
                  /\ Cardinality(SendsOf("user_joined") \cap SendsTo(c)) = 1
                  /\ \A i \in SendsOf("user_joined") \cap SendsTo(c) :
                         sent[i].payload.user =
                             [name   |-> last.message.name,
                              mobile |-> last.message.mobile]
           /\ RecipientsOf("user_joined") = Registered(prevUsers) \ {last.ws}
    /\ (IsCloseEvent /\ HasRegistered(last.ws)) =>
           \A i \in SendsOf("user_left") :
               sent[i].payload.mobile = lastReg[last.ws].mobile

\* a connection that registered under two different mobiles disconnects while
\* another connection is registered
C26_Witness ==
    /\ IsCloseEvent
    /\ HasRegistered(last.ws)
    /\ firstReg[last.ws].mobile # lastReg[last.ws].mobile
    /\ SendsOf("user_left") # {}

(* ------------------------------- C27 ---------------------------------- *)

\* C27: once a group named X has been created, a message addressed to X goes
\* to the current members of X and to nobody else: with no members it reaches
\* nobody, also when a registered connection has X as its mobile.
C27_NoFallback ==
    (IsMessageEvent /\ last.message.to \in everJoined) =>
        /\ Recipients = MembersIn(prevGroups, last.message.to)
        /\ MembersIn(prevGroups, last.message.to) = {} => sent = <<>>
        /\ \A c \in Holders(prevUsers, last.message.to) :
               c \notin MembersIn(prevGroups, last.message.to) => SendsTo(c) = {}

\* a message addressed to a group that lost all its members, while a
\* registered connection has the group's name as its mobile
C27_Witness ==
    /\ IsMessageEvent
    /\ last.message.to \in everJoined
    /\ MembersIn(prevGroups, last.message.to) = {}
    /\ Holders(prevUsers, last.message.to) # {}

(* ------------------------------- C28 ---------------------------------- *)

\* payload types broadcast over the user registry
RegistryBroadcasts == {"user_joined", "user_left", "group_created"}

\* C28: every member of a group, registered or not, is sent each message
\* addressed to the group exactly once; user_joined, user_left and
\* group_created reach only connections that were registered when the event
\* arrived; a register event leaves the memberships of its connection as they
\* were.
C28_MemberWithoutUser ==
    /\ (IsMessageEvent /\ last.message.to \in GroupNamesIn(prevGroups)) =>
           \A c \in MembersIn(prevGroups, last.message.to) :
               Cardinality(SendsOf("message") \cap SendsTo(c)) = 1
    /\ \A t \in RegistryBroadcasts : RecipientsOf(t) \subseteq Registered(prevUsers)
    /\ IsRegisterEvent => GroupsOf(groups, last.ws) = GroupsOf(prevGroups, last.ws)

\* an unregistered member of a group was sent a message addressed to the group
C28_Witness ==
    /\ IsMessageEvent
    /\ \E c \in MembersIn(prevGroups, last.message.to) :
          c \notin Registered(prevUsers) /\ SendsTo(c) # {}

(* ------------------------------- C24 ---------------------------------- *)

\* C24: fed the same events, the inline handlers of server.js and the uMessage
\* class hold the same user and group registries after every event and send
\* the same payloads to the same connections in the same order.
C24_SameBehaviour ==
    /\ inline.users = users
    /\ inline.groups = groups
    /\ inline.sent = sent

\* both versions answered a register frame with replies and broadcasts while
\* groups existed
C24_Witness ==
    /\ IsRegisterEvent
    /\ Len(inline.sent) >= 4
    /\ inline.groups # <<>>

(* ------------------------------- C25 ---------------------------------- *)

\* the mobiles a page shows as online
PresenceView(c) == {u.mobile : u \in client[c].onlineUsers}

\* the mobiles of the registered connections other than c
OthersOnline(c) == {users[i].user.mobile : i \in {j \in 1..Len(users) : users[j].socket # c}}

\* C25: provided no two registered connections ever had the same mobile, once
\* a registered connection has handled every payload sent to it, the mobiles
\* it got from user_list and user_joined and did not lose to user_left are the
\* mobiles of the other registered connections.
C25_PresenceView ==
    (wire = <<>> /\ ~shared) =>
        \A c \in Pages : c \in Registered(users) => PresenceView(c) = OthersOnline(c)

(* ------------------------------- C29 ---------------------------------- *)

\* the entries of the history a page keeps for a chat
HistoryOf(c, id) ==
    IF ChatsHas(client[c].chats, id) THEN client[c].chats[id].messages ELSE <<>>

\* the sendMessage calls of a page for a chat
TypedTo(c, id) == {k \in 1..Len(typed[c]) : typed[c][k].chat = id}

\* C29: while a page is the only one that has sent messages, and has handled
\* every payload sent to it, its history of each chat holds one entry for each
\* message it sent to that chat.
C29_ExactlyOnce ==
    \A c \in Pages :
        (wire = <<>> /\ \A d \in Pages \ {c} : typed[d] = <<>>) =>
            \A id \in ChatIds \cup GroupNames :
                Len(HistoryOf(c, id)) = Cardinality(TypedTo(c, id))

(* ------------------------------- C30 ---------------------------------- *)

\* the last event was a join_group that created its group
IsCreateEvent == IsJoinEvent /\ last.message.groupName \notin GroupNamesIn(prevGroups)

IsNoToEvent ==
    /\ last.kind = "message"
    /\ last.message.type = "message"
    /\ last.message.to = Undefined

\* C31: a message event that carries no `to` is delivered to no connection,
\* whatever the registries hold.
C31_NoAddressee == IsNoToEvent => sent = <<>>

====
